---------------------------- MODULE Spec2Model ----------------------------
(***************************************************************************)
(* A model of the tiling-and-fusion pipeline of improved_yolo_SAHI_clone:  *)
(*   - CombineDetection.nms            (nodes/CombineDetections.py)        *)
(*   - MakeCropsDetectThem.get_crops_xy (nodes/MakeCropsDetectThem.py)     *)
(*   - CropComponent and CombineDetection.combinate_detections             *)
(*                                                                         *)
(* Conventions.  Python lists and tensors are sequences; Python's 0-based  *)
(* index k is the 1-based index k+1 here.  A box is <<x1, y1, x2, y2>>     *)
(* with integer coordinates (CropComponent stores .int() boxes).  A binary *)
(* mask is the set of its non-zero pixels.  A confidence is an integer     *)
(* number of hundredths (81 is 0.81).  A threshold is a rational           *)
(* <<num, den>> with den > 0, and every division of the code is compared   *)
(* by cross-multiplication, so no quotient is ever rounded.                *)
(***************************************************************************)
EXTENDS Integers, Sequences, FiniteSets, TLC

VARIABLES
    \* CombineDetection.nms: arguments
    confidences, boxes, masks, match_metric, nms_threshold, intelligent_sorter,
    \* CombineDetection.nms: locals and position
    order, keep, pc,
    \* MakeCropsDetectThem.get_crops_xy: arguments (image_full.shape[1] and
    \* image_full.shape[0] of the image passed in, the tile size, the overlaps)
    image_w, image_h, shape_x, shape_y, overlap_x, overlap_y,
    \* get_crops_xy: locals, the 'Error in generating crops' lines printed, and
    \* position
    x_steps, y_steps, x_new, y_new, i, j, count, data_all_crops, errors_printed,
    tiler_pc,
    \* the segment argument of the run's calculate_inference calls
    segment,
    \* CombineDetection.combinate_detections: locals, the index of the crop the
    \* loop is at, and position
    detected_conf, detected_xyxy, detected_masks, detected_cls, crop_at, fusion_pc,
    \* the exception the last failed call raised ("" when none has)
    exception

nmsVars == <<confidences, boxes, masks, match_metric, nms_threshold,
             intelligent_sorter, order, keep, pc>>

tilerArgs == <<image_w, image_h, shape_x, shape_y, overlap_x, overlap_y>>

tilerVars == <<image_w, image_h, shape_x, shape_y, overlap_x, overlap_y,
               x_steps, y_steps, x_new, y_new, i, j, count, data_all_crops,
               errors_printed, tiler_pc>>

combineLocals == <<detected_conf, detected_xyxy, detected_masks, detected_cls, crop_at>>

fusionVars == <<segment, detected_conf, detected_xyxy, detected_masks, detected_cls,
                crop_at, fusion_pc, exception>>

vars == <<nmsVars, tilerVars, fusionVars>>

(***************************************************************************)
(* Bounds and input domains                                                *)
(***************************************************************************)
\* largest number of detections handed to nms
MaxDet == 3

\* largest image side and largest tile side handed to get_crops_xy
MaxImage == 6
MaxShape == 3

\* overlap percentages: for each of them 1 - overlap / 100 is a binary
\* fraction (1, 0.75, 0.5, 0.25), so every product and quotient get_crops_xy
\* forms from it and the integers below is exact in floating point
OverlapSet == { 0, 25, 50, 75 }

\* the scenario of the specification: a 1500 x 1000 image, 700 x 700 tiles,
\* 25% overlap on both axes
ReferenceInput ==
    [image_w |-> 1500, image_h |-> 1000, shape_x |-> 700, shape_y |-> 700,
     overlap_x |-> 25, overlap_y |-> 25]

\* largest number of instances model.predict reports for one crop
MaxPred == 2

\* the instances model.predict may report for a crop: box and mask in the
\* crop's frame (the mask as rows of 0/1, of the tile's shape), class id and
\* confidence
InstanceSet ==
    { [xyxy |-> <<0, 0, 1, 2>>, cls |-> 0, conf |-> 90, mask |-> << <<1, 0>>, <<1, 0>> >>],
      [xyxy |-> <<1, 1, 2, 2>>, cls |-> 1, conf |-> 81, mask |-> << <<0, 0>>, <<0, 1>> >>] }

\* the images the pipeline is run on: 2 x 2 tiles, two crops each; the canvas
\* is 3 x 2, 4 x 2 and 4 x 2
PipelineInputs ==
    { [image_w |-> 3, image_h |-> 2, shape_x |-> 2, shape_y |-> 2, overlap_x |-> 50, overlap_y |-> 0],
      [image_w |-> 4, image_h |-> 2, shape_x |-> 2, shape_y |-> 2, overlap_x |-> 0, overlap_y |-> 0],
      [image_w |-> 5, image_h |-> 3, shape_x |-> 2, shape_y |-> 2, overlap_x |-> 0, overlap_y |-> 25] }

\* masks=None, and a list of masks
NoMasks == [given |-> FALSE, list |-> <<>>]
MaskList(l) == [given |-> TRUE, list |-> l]

\* positive-area boxes of areas 2000, 500 and 2000: the first two have IoU 1/4
\* and IoS 1, the first and the third IoU 1/3 and IoS 1/2, the last two only
\* touch (x = 25) and have IoU = IoS = 0; equal boxes have IoU = IoS = 1
BoxSet == { <<0, 0, 50, 40>>, <<0, 0, 25, 20>>, <<25, 0, 75, 40>> }

\* the boxes and confidences of the calls that carry masks: two boxes that
\* only touch (equal boxes overlap), an equal and a different confidence
MaskBoxSet == { <<0, 0, 25, 20>>, <<25, 0, 75, 40>> }
MaskConfSet == { 81, 90 }

\* 0.81 and 0.84 round to 0.8, 0.90 to 0.9
ConfSet == { 81, 84, 90 }

\* masks over three pixels: {1,2} and {2,3} have IoU 1/3 and IoS 1/2, {1,2} and
\* {1} have IoU 1/2 and IoS 1, {2,3} and {1} share no pixel
MaskSet == { {1, 2}, {2, 3}, {1} }

\* 0, 0.25 and 0.5: each is a binary fraction, so the float the code
\* compares with is the threshold itself
ThresholdSet == { <<0, 1>>, <<1, 4>>, <<1, 2>> }

\* a box of width 0 next to a box of positive area: .int() on the predicted
\* coordinates can produce one, and its area is 0
ZeroAreaBoxSet == { <<0, 0, 25, 20>>, <<40, 0, 40, 20>> }

\* the masks of the calls with a zero-area box: two that share no pixel
ZeroAreaMaskSet == { {1}, {2, 3} }

\* the thresholds of the calls that carry masks
MaskThresholdSet == { <<0, 1>>, <<1, 2>> }

\* a metric name that is neither IOU nor IOS
UnknownMetric == "GIOU"

(***************************************************************************)
(* Helpers                                                                 *)
(***************************************************************************)
Max(a, b) == IF a >= b THEN a ELSE b
Min(a, b) == IF a <= b THEN a ELSE b

Last(s) == s[Len(s)]
Front(s) == SubSeq(s, 1, Len(s) - 1)

(***************************************************************************)
(* MakeCropsDetectThem.get_crops_xy                                        *)
(*                                                                         *)
(* cross_koef = 1 - overlap / 100 is the fraction (100 - overlap) / 100;   *)
(* the expressions of the code are kept as quotients of integers.          *)
(***************************************************************************)
\* int(num / den) for den > 0: truncation toward zero
IntTrunc(num, den) ==
    IF num >= 0 THEN num \div den ELSE -((-num) \div den)

\* round(num / den) for den > 0: Python rounds a half to the even neighbour
PyRound(num, den) ==
    LET q == num \div den
        r == num % den
    IN  IF 2 * r < den THEN q
        ELSE IF 2 * r > den THEN q + 1
        ELSE IF q % 2 = 0 THEN q ELSE q + 1

\* the number of steps rounded up instead of truncated
StepCountCeil(image_dim, shape, overlap) ==
    -((-((image_dim - shape) * 100)) \div (shape * (100 - overlap))) + 1

\* int((image_full.shape[axis] - shape) / (shape * cross_koef)) + 1
StepCount(image_dim, shape, overlap) ==
    IntTrunc((image_dim - shape) * 100, shape * (100 - overlap)) + 1

\* the canvas as steps strides, without the tile that ends it
CanvasDimStrides(steps, shape, overlap) ==
    PyRound(steps * shape * (100 - overlap), 100)

\* round((steps - 1) * (shape * cross_koef) + shape)
CanvasDim(steps, shape, overlap) ==
    PyRound((steps - 1) * shape * (100 - overlap) + shape * 100, 100)

\* the offset rounded instead of truncated
TileStartRounded(shape, idx, overlap) ==
    PyRound(shape * idx * (100 - overlap), 100)

\* int(shape * idx * cross_koef)
TileStart(shape, idx, overlap) ==
    IntTrunc(shape * idx * (100 - overlap), 100)

\* an attribute that is None, and one that holds v
None == [some |-> FALSE, val |-> <<>>]
Some(v) == [some |-> TRUE, val |-> v]

\* CropComponent.__init__ as get_crops_xy calls it; crop is the extent
\* [x_start, x_start + shape_x) x [y_start, y_start + shape_y) of the slice
CropAt(number, xs, ys, sx, sy) ==
    [number_of_crop |-> number, x_start |-> xs, y_start |-> ys,
     crop |-> [x0 |-> xs, x1 |-> xs + sx, y0 |-> ys, y1 |-> ys + sy],
     detected_conf |-> None, detected_cls |-> None, detected_xyxy |-> None,
     detected_masks |-> None, detected_xyxy_real |-> None, detected_masks_real |-> None]

\* lines 103-119: the steps, the size of the canvas, the resize
TilerSetup ==
    /\ tiler_pc = "entry"
    /\ y_steps' = StepCount(image_h, shape_y, overlap_y)
    /\ x_steps' = StepCount(image_w, shape_x, overlap_x)
    /\ y_new' = CanvasDim(y_steps', shape_y, overlap_y)
    /\ x_new' = CanvasDim(x_steps', shape_x, overlap_x)
    /\ i' = 0
    /\ j' = 0
    /\ count' = 0
    /\ data_all_crops' = <<>>
    /\ errors_printed' = 0
    /\ tiler_pc' = "loop"
    /\ UNCHANGED <<tilerArgs, nmsVars, fusionVars>>

\* lines 120-149: one iteration of the inner loop, at row i and column j
TilerStep ==
    /\ tiler_pc = "loop"
    /\ i < y_steps
    /\ j < x_steps
    /\ LET x_start == TileStart(shape_x, j, overlap_x)
           y_start == TileStart(shape_y, i, overlap_y)
       IN  IF x_start + shape_x > x_new \/ y_start + shape_y > y_new
           THEN \* print('Error in generating crops ...'); continue
                /\ errors_printed' = errors_printed + 1
                /\ UNCHANGED <<count, data_all_crops>>
           ELSE /\ count' = count + 1
                /\ data_all_crops' =
                      Append(data_all_crops, CropAt(count + 1, x_start, y_start, shape_x, shape_y))
                /\ UNCHANGED errors_printed
    /\ IF j + 1 < x_steps
       THEN j' = j + 1 /\ i' = i
       ELSE j' = 0 /\ i' = i + 1
    /\ UNCHANGED <<tilerArgs, x_steps, y_steps, x_new, y_new, tiler_pc, nmsVars, fusionVars>>

\* line 155: both loops are over
TilerReturn ==
    /\ tiler_pc = "loop"
    /\ i >= y_steps \/ x_steps <= 0
    /\ tiler_pc' = "return"
    /\ UNCHANGED <<tilerArgs, x_steps, y_steps, x_new, y_new, i, j, count,
                   data_all_crops, errors_printed, nmsVars, fusionVars>>

\* the tiler before it is called
TilerLocalsAtEntry ==
    /\ x_steps = 0 /\ y_steps = 0 /\ x_new = 0 /\ y_new = 0
    /\ i = 0 /\ j = 0 /\ count = 0
    /\ data_all_crops = <<>>
    /\ errors_printed = 0

TilerIdle ==
    /\ image_w = 0 /\ image_h = 0 /\ shape_x = 0 /\ shape_y = 0
    /\ overlap_x = 0 /\ overlap_y = 0
    /\ TilerLocalsAtEntry
    /\ tiler_pc = "idle"

\* the images and tile sizes of the calls: image_dim >= tile_dim > 0 on both axes
SmallInputs ==
    { [image_w |-> w, image_h |-> h, shape_x |-> sx, shape_y |-> sy,
       overlap_x |-> ox, overlap_y |-> oy] :
         w \in 1..MaxImage, h \in 1..MaxImage, sx \in 1..MaxShape, sy \in 1..MaxShape,
         ox \in OverlapSet, oy \in OverlapSet }

TilerInputs ==
    { t \in SmallInputs : t.shape_x <= t.image_w /\ t.shape_y <= t.image_h }
        \cup { ReferenceInput }

(***************************************************************************)
(* CropComponent and CombineDetection.combinate_detections                 *)
(*                                                                         *)
(* The crops are the CropComponent objects of data_all_crops; their        *)
(* source_image is image_w x image_h and their source_image_resized is the *)
(* x_new x y_new canvas.                                                   *)
(***************************************************************************)
\* the results model.predict may return for one crop
Predictions == UNION { [1..n -> InstanceSet] : n \in 0..MaxPred }

\* cv2.resize(mask, (w, h), interpolation=cv2.INTER_NEAREST): the pixel
\* (x, y) of the result is the pixel (floor(x * mask_w / w), floor(y * mask_h / h))
\* of mask, clamped to its last column and row
ResizeNearest(mask, w, h) ==
    LET mh == Len(mask)
        mw == Len(mask[1])
    IN  [y \in 1..h |-> [x \in 1..w |->
            mask[Min(((y - 1) * mh) \div h, mh - 1) + 1][Min(((x - 1) * mw) \div w, mw - 1) + 1]]]

\* np.array(detected_xyxy) + np.array([[x_start, y_start, x_start, y_start]])
AddOffset(xyxy, xs, ys) ==
    [k \in 1..Len(xyxy) |->
        <<xyxy[k][1] + xs, xyxy[k][2] + ys, xyxy[k][3] + xs, xyxy[k][4] + ys>>]

\* the crop after calculate_inference, for the result pred of model.predict
AfterInference(c, pred, seg) ==
    LET n == Len(pred) IN
    [c EXCEPT !.detected_xyxy = Some([k \in 1..n |-> pred[k].xyxy]),
              !.detected_cls = Some([k \in 1..n |-> pred[k].cls]),
              !.detected_conf = Some([k \in 1..n |-> pred[k].conf]),
              !.detected_masks = IF seg /\ n # 0
                                 THEN Some([k \in 1..n |-> pred[k].mask])
                                 ELSE @]

\* CropComponent.calculate_inference on crop c
CalculateInference(c) ==
    /\ tiler_pc = "return"
    /\ fusion_pc = "crops"
    /\ \E pred \in Predictions :
          data_all_crops' =
              [data_all_crops EXCEPT ![c] = AfterInference(data_all_crops[c], pred, segment)]
    /\ UNCHANGED <<tilerArgs, x_steps, y_steps, x_new, y_new, i, j, count, errors_printed,
                   tiler_pc, nmsVars, fusionVars>>

\* what the addition on lines 67-68 raises: None + array is a TypeError, and
\* an empty list is an array of shape (0,), which does not broadcast with (1, 4)
RealValuesError(c) ==
    IF ~c.detected_xyxy.some THEN "TypeError"
    ELSE IF Len(c.detected_xyxy.val) = 0 THEN "ValueError"
    ELSE ""

\* the crop after a calculate_real_values that raises nothing
AfterRealValues(c, cw, ch) ==
    [c EXCEPT !.detected_xyxy_real = Some(AddOffset(c.detected_xyxy.val, c.x_start, c.y_start)),
              !.detected_masks_real =
                  IF c.detected_masks.some
                  THEN Some([k \in 1..Len(c.detected_masks.val) |->
                                ResizeNearest(c.detected_masks.val[k], cw, ch)])
                  ELSE @]

\* CropComponent.calculate_real_values on crop c
CalculateRealValues(c) ==
    /\ tiler_pc = "return"
    /\ fusion_pc = "crops"
    /\ IF RealValuesError(data_all_crops[c]) # ""
       THEN /\ exception' = RealValuesError(data_all_crops[c])
            /\ UNCHANGED data_all_crops
       ELSE /\ data_all_crops' =
                  [data_all_crops EXCEPT ![c] = AfterRealValues(data_all_crops[c], x_new, y_new)]
            /\ UNCHANGED exception
    /\ UNCHANGED <<tilerArgs, x_steps, y_steps, x_new, y_new, i, j, count, errors_printed,
                   tiler_pc, nmsVars, segment, combineLocals, fusion_pc>>

\* what resize_results raises on line 84: None cannot be indexed, and the
\* remapped boxes are an integer array (integer boxes plus integer offsets),
\* which an in-place multiplication by the float scale_x cannot be cast back
\* into (UFuncTypeError, a TypeError)
ResizeResultsError(c) ==
    IF ~c.detected_xyxy_real.some THEN "TypeError" ELSE "UFuncTypeError"

\* CropComponent.resize_results on crop c: line 84 raises whatever the crop
\* holds, so lines 85-91 are not reached and the crop is left as it was
ResizeResults(c) ==
    /\ tiler_pc = "return"
    /\ fusion_pc = "crops"
    /\ exception' = ResizeResultsError(data_all_crops[c])
    /\ UNCHANGED <<tilerVars, nmsVars, segment, combineLocals, fusion_pc>>

\* combinate_detections(crops=self.crops), lines 112-115
CombineStart ==
    /\ tiler_pc = "return"
    /\ fusion_pc = "crops"
    /\ detected_conf' = <<>>
    /\ detected_xyxy' = <<>>
    /\ detected_masks' = <<>>
    /\ detected_cls' = <<>>
    /\ crop_at' = 1
    /\ fusion_pc' = "combine"
    /\ UNCHANGED <<tilerVars, nmsVars, segment, exception>>

\* list.extend(v): None is not iterable
ExtendRaises(v) == ~v.some

\* lines 117-121: one iteration of for crop in crops; the four extends run in
\* order and the first that is handed None raises TypeError
CombineStep ==
    /\ fusion_pc = "combine"
    /\ crop_at <= Len(data_all_crops)
    /\ LET c == data_all_crops[crop_at]
           conf_ok == ~ExtendRaises(c.detected_conf)
           xyxy_ok == conf_ok /\ ~ExtendRaises(c.detected_xyxy_real)
           masks_ok == xyxy_ok /\ ~ExtendRaises(c.detected_masks_real)
           cls_ok == masks_ok /\ ~ExtendRaises(c.detected_cls)
       IN  /\ detected_conf' = IF conf_ok THEN detected_conf \o c.detected_conf.val
                               ELSE detected_conf
           /\ detected_xyxy' = IF xyxy_ok THEN detected_xyxy \o c.detected_xyxy_real.val
                               ELSE detected_xyxy
           /\ detected_masks' = IF masks_ok THEN detected_masks \o c.detected_masks_real.val
                                ELSE detected_masks
           /\ detected_cls' = IF cls_ok THEN detected_cls \o c.detected_cls.val
                              ELSE detected_cls
           /\ IF cls_ok
              THEN crop_at' = crop_at + 1 /\ UNCHANGED <<fusion_pc, exception>>
              ELSE /\ fusion_pc' = "raise"
                   /\ exception' = "TypeError"
                   /\ UNCHANGED crop_at
    /\ UNCHANGED <<tilerVars, nmsVars, segment>>

\* line 123
CombineReturn ==
    /\ fusion_pc = "combine"
    /\ crop_at > Len(data_all_crops)
    /\ fusion_pc' = "return"
    /\ UNCHANGED <<tilerVars, nmsVars, segment, combineLocals, exception>>

FusionLocalsAtEntry ==
    /\ detected_conf = <<>> /\ detected_xyxy = <<>>
    /\ detected_masks = <<>> /\ detected_cls = <<>>
    /\ crop_at = 0
    /\ exception = ""

FusionIdle ==
    /\ segment = FALSE
    /\ FusionLocalsAtEntry
    /\ fusion_pc = "idle"

(***************************************************************************)
(* CombineDetection.nms                                                    *)
(***************************************************************************)
\* areas = (x2 - x1) * (y2 - y1)
BoxArea(b) == (b[3] - b[1]) * (b[4] - b[2])

\* inter = clamp(min(x2) - max(x1), 0) * clamp(min(y2) - max(y1), 0)
BoxInter(a, b) ==
    LET w == Min(a[3], b[3]) - Max(a[1], b[1])
        h == Min(a[4], b[4]) - Max(a[2], b[2])
    IN  Max(w, 0) * Max(h, 0)

\* IoS with the area of the accepted box a alone as the denominator
BoxMetricIdxArea(metric, a, b) ==
    IF metric = "IOU"
    THEN <<BoxInter(a, b), (BoxArea(b) - BoxInter(a, b)) + BoxArea(a)>>
    ELSE <<BoxInter(a, b), BoxArea(a)>>

\* match_metric_value of the accepted box a and a remaining box b, as the
\* fraction <<numerator, denominator>>; the denominator is 0 (and so is the
\* numerator) when IOS meets a zero-area box or IOU two of them, and the
\* tensor then holds 0/0 = nan
BoxMetric(metric, a, b) ==
    IF metric = "IOU"
    THEN <<BoxInter(a, b), (BoxArea(b) - BoxInter(a, b)) + BoxArea(a)>>
    ELSE <<BoxInter(a, b), Min(BoxArea(b), BoxArea(a))>>

\* intersect_over_union / intersect_over_smaller on two binary masks,
\* 0 when the denominator is 0
MaskMetric(metric, m, other) ==
    LET inter == Cardinality(m \cap other)
        den == IF metric = "IOU"
               THEN Cardinality(m \cup other)
               ELSE Min(Cardinality(m), Cardinality(other))
    IN  IF den # 0 THEN <<inter, den>> ELSE <<0, 1>>

\* the value is 0/0
IsNan(f) == f[2] = 0

\* match_metric_value <= nms_threshold
FracLe(f, t) == f[1] * t[2] <= t[1] * f[2]

\* match_metric_value < nms_threshold; False for nan
FracLt(f, t) == ~IsNan(f) /\ f[1] * t[2] < t[1] * f[2]

\* mask_iou > nms_threshold
FracGt(f, t) == ~IsNan(f) /\ f[1] * t[2] > t[1] * f[2]

\* the confidence in tenths without the rounding
ConfUnrounded(c) == c

\* round(confidences[k].item(), 1), in tenths; no element of ConfSet is a tie
Round1(c) == (c + 5) \div 10

\* key=lambda k: (round(confidences[k].item(), 1), areas[k])
KeyLe(cf, bx, a, b) ==
    \/ Round1(cf[a]) < Round1(cf[b])
    \/ Round1(cf[a]) = Round1(cf[b]) /\ BoxArea(bx[a]) <= BoxArea(bx[b])
KeyLt(cf, bx, a, b) == ~KeyLe(cf, bx, b, a)

\* whether the sort may put m after every other index of S: sorted(...) is
\* stable, so of two equal keys the larger index comes later; argsort() is not
\* stable, so equal confidences may come out in either order
SortsLast(cf, bx, sorter, S, m) ==
    \A k \in S \ {m} :
        IF sorter
        THEN KeyLt(cf, bx, k, m) \/ (KeyLe(cf, bx, k, m) /\ k < m)
        ELSE cf[k] <= cf[m]

\* the ascending arrangements of the indices S
RECURSIVE OrdersOf(_, _, _, _)
OrdersOf(cf, bx, sorter, S) ==
    IF S = {} THEN { <<>> }
    ELSE UNION { { Append(o, m) : o \in OrdersOf(cf, bx, sorter, S \ {m}) } :
                 m \in { k \in S : SortsLast(cf, bx, sorter, S, k) } }

\* the value(s) order may have when the loop starts
SortedOrders(cf, bx, sorter) == OrdersOf(cf, bx, sorter, 1..Len(cf))

\* the suppression step without the mask branch
SuppressByBoxes(bx, ms, metric, thr, idx, rest) ==
    LET Stays(k) == FracLt(BoxMetric(metric, bx[idx], bx[k]), thr)
    IN  SelectSeq(rest, Stays)

\* the body of the while loop after idx was popped, for a non-empty rest and a
\* known metric: the new value of order
Suppress(bx, ms, metric, thr, idx, rest) ==
    LET \* match_metric_value > 0; False for nan
        Overlaps(k) == FracGt(BoxMetric(metric, bx[idx], bx[k]), <<0, 1>>)
    IN  IF ms.given /\ \E a \in 1..Len(rest) : Overlaps(rest[a])
        THEN \* masks is not None and any(match_metric_value > 0): among the
             \* overlapping indices, drop those whose mask metric is > nms_threshold
             LET Stays(k) ==
                   ~(Overlaps(k) /\ FracGt(MaskMetric(metric, ms.list[idx], ms.list[k]), thr))
             IN  SelectSeq(rest, Stays)
        ELSE \* keep match_metric_value < nms_threshold
             LET Stays(k) == FracLt(BoxMetric(metric, bx[idx], bx[k]), thr)
             IN  SelectSeq(rest, Stays)

KnownMetric(metric) == metric \in {"IOU", "IOS"}

\* one iteration of while len(order) > 0, from a non-empty order: the new
\* order and keep, and where control goes
Round(bx, ms, metric, thr, ord, kp) ==
    LET idx == Last(ord)
        rest == Front(ord)
        kp2 == Append(kp, idx)
    IN  IF Len(rest) = 0
        THEN [order |-> rest, keep |-> kp2, pc |-> "return"]
        ELSE IF ~KnownMetric(metric)
        THEN [order |-> rest, keep |-> kp2, pc |-> "raise"]
        ELSE LET left == Suppress(bx, ms, metric, thr, idx, rest)
             IN  [order |-> left, keep |-> kp2,
                  pc |-> IF Len(left) > 0 THEN "loop" ELSE "return"]

\* the while loop run to its end
RECURSIVE NmsLoop(_, _, _, _, _, _)
NmsLoop(bx, ms, metric, thr, ord, kp) ==
    LET r == Round(bx, ms, metric, thr, ord, kp)
    IN  IF r.pc = "loop" THEN NmsLoop(bx, ms, metric, thr, r.order, r.keep) ELSE r

\* every outcome of one call of nms (one for each order the sort may produce)
NmsOutcomes(cf, bx, ms, metric, thr, sorter) ==
    IF Len(bx) = 0
    THEN { [order |-> <<>>, keep |-> <<>>, pc |-> "return"] }
    ELSE { NmsLoop(bx, ms, metric, thr, o, <<>>) : o \in SortedOrders(cf, bx, sorter) }

nmsArgs == <<confidences, boxes, masks, match_metric, nms_threshold, intelligent_sorter>>

\* if len(boxes) == 0: return []; else sort and enter the loop
NmsEntry ==
    /\ pc = "entry"
    /\ IF Len(boxes) = 0
       THEN /\ pc' = "return"
            /\ order' = <<>>
       ELSE /\ pc' = "loop"
            /\ order' \in SortedOrders(confidences, boxes, intelligent_sorter)
    /\ keep' = <<>>
    /\ UNCHANGED <<nmsArgs, tilerVars, fusionVars>>

\* one iteration of while len(order) > 0
NmsRound ==
    /\ pc = "loop"
    /\ Len(order) > 0
    /\ LET r == Round(boxes, masks, match_metric, nms_threshold, order, keep)
       IN  /\ order' = r.order
           /\ keep' = r.keep
           /\ pc' = r.pc
    /\ UNCHANGED <<nmsArgs, tilerVars, fusionVars>>

\* calls without masks
InitBoxOnly ==
    /\ \E n \in 0..MaxDet :
         /\ boxes \in [1..n -> BoxSet]
         /\ confidences \in [1..n -> ConfSet]
    /\ masks = NoMasks
    /\ match_metric \in {"IOU", "IOS"}
    /\ nms_threshold \in ThresholdSet

\* calls with one mask for every detection
InitWithMasks ==
    /\ \E n \in 0..MaxDet :
         /\ boxes \in [1..n -> MaskBoxSet]
         /\ confidences \in [1..n -> MaskConfSet]
         /\ \E l \in [1..n -> MaskSet] : masks = MaskList(l)
    /\ match_metric \in {"IOU", "IOS"}
    /\ nms_threshold \in MaskThresholdSet

\* calls with a metric that is neither IOU nor IOS, without and with masks
InitUnknownMetric ==
    /\ \E n \in 0..MaxDet :
         /\ boxes \in [1..n -> MaskBoxSet]
         /\ confidences \in [1..n -> MaskConfSet]
         /\ masks \in {NoMasks, MaskList([k \in 1..n |-> {1}])}
    /\ match_metric = UnknownMetric
    /\ nms_threshold \in ThresholdSet

\* calls, without and with masks, that may hold a zero-area box
InitZeroAreaBox ==
    /\ \E n \in 0..MaxDet :
         /\ boxes \in [1..n -> ZeroAreaBoxSet]
         /\ confidences \in [1..n -> MaskConfSet]
         /\ \/ masks = NoMasks
            \/ \E l \in [1..n -> ZeroAreaMaskSet] : masks = MaskList(l)
    /\ match_metric \in {"IOU", "IOS"}
    /\ nms_threshold \in MaskThresholdSet

InitNms ==
    /\ InitBoxOnly \/ InitWithMasks \/ InitUnknownMetric \/ InitZeroAreaBox
    /\ intelligent_sorter \in BOOLEAN
    /\ order = <<>>
    /\ keep = <<>>
    /\ pc = "entry"
    /\ TilerIdle
    /\ FusionIdle

NmsIdle ==
    /\ confidences = <<>> /\ boxes = <<>> /\ masks = NoMasks
    /\ match_metric = "IOU" /\ nms_threshold = <<0, 1>> /\ intelligent_sorter = FALSE
    /\ order = <<>> /\ keep = <<>>
    /\ pc = "idle"

InitTiler ==
    /\ \E t \in TilerInputs :
         /\ image_w = t.image_w /\ image_h = t.image_h
         /\ shape_x = t.shape_x /\ shape_y = t.shape_y
         /\ overlap_x = t.overlap_x /\ overlap_y = t.overlap_y
    /\ TilerLocalsAtEntry
    /\ tiler_pc = "entry"
    /\ NmsIdle
    /\ FusionIdle

NextTiler == TilerSetup \/ TilerStep \/ TilerReturn

SpecTiler == InitTiler /\ [][NextTiler]_vars

\* the pipeline: get_crops_xy, then the CropComponent calls on its crops,
\* then combinate_detections
InitPipeline ==
    /\ \E t \in PipelineInputs :
         /\ image_w = t.image_w /\ image_h = t.image_h
         /\ shape_x = t.shape_x /\ shape_y = t.shape_y
         /\ overlap_x = t.overlap_x /\ overlap_y = t.overlap_y
    /\ TilerLocalsAtEntry
    /\ tiler_pc = "entry"
    /\ segment \in BOOLEAN
    /\ FusionLocalsAtEntry
    /\ fusion_pc = "crops"
    /\ NmsIdle

NextPipeline ==
    \/ TilerSetup
    \/ TilerStep
    \/ TilerReturn
    \/ \E c \in 1..Len(data_all_crops) : CalculateInference(c)
    \/ \E c \in 1..Len(data_all_crops) : CalculateRealValues(c)
    \/ \E c \in 1..Len(data_all_crops) : ResizeResults(c)
    \/ CombineStart
    \/ CombineStep
    \/ CombineReturn

SpecPipeline == InitPipeline /\ [][NextPipeline]_vars

NextNms == NmsEntry \/ NmsRound

SpecNms == InitNms /\ [][NextNms]_vars

(***************************************************************************)
(* Properties of CombineDetection.nms                                      *)
(*                                                                         *)
(* The metrics below are the definitions of IoU and IoS, written apart     *)
(* from the code's computation of them.                                    *)
(***************************************************************************)
\* intersection over union of two boxes, as a fraction
IoU(a, b) == <<BoxInter(a, b), BoxArea(a) + BoxArea(b) - BoxInter(a, b)>>

\* intersection over the smaller area of two boxes, as a fraction
IoS(a, b) == <<BoxInter(a, b), IF BoxArea(a) <= BoxArea(b) THEN BoxArea(a) ELSE BoxArea(b)>>

BoxValue(metric, a, b) == IF metric = "IOU" THEN IoU(a, b) ELSE IoS(a, b)

\* the same on two masks (0 when both are empty / the smaller is empty)
MaskValue(metric, m, o) ==
    LET den == IF metric = "IOU"
               THEN Cardinality(m \cup o)
               ELSE IF Cardinality(m) <= Cardinality(o) THEN Cardinality(m) ELSE Cardinality(o)
    IN  IF den = 0 THEN <<0, 1>> ELSE <<Cardinality(m \cap o), den>>

\* a fraction against the threshold
AtLeast(f, t) == f[1] * t[2] >= t[1] * f[2]
Equals(f, t) == f[1] * t[2] = t[1] * f[2]
Below(f, t) == f[1] * t[2] < t[1] * f[2]

\* the indices the call returned, as a set
Kept == { keep[a] : a \in 1..Len(keep) }

\* C1: when nms returns from a call without masks and with metric IOU or IOS,
\* the returned list names no index twice and no two of its indices have a
\* box-level metric value >= nms_threshold.
C1_BoxOnlySurvivorsBelowThreshold ==
    (pc = "return" /\ ~masks.given /\ KnownMetric(match_metric)) =>
        /\ \A a, b \in 1..Len(keep) : a # b => keep[a] # keep[b]
        /\ \A p, q \in Kept : p # q =>
              ~AtLeast(BoxValue(match_metric, boxes[p], boxes[q]), nms_threshold)

\* a call without masks suppressed a detection and returned two or more
C1_Witness ==
    /\ pc = "return" /\ ~masks.given /\ KnownMetric(match_metric)
    /\ Len(keep) >= 2
    /\ Len(keep) < Len(boxes)

\* C2 (as claimed): when nms returns from a call with a mask for every
\* detection, no two returned indices have overlapping boxes and a mask-level
\* metric value >= nms_threshold.
C2_MaskSurvivorsBelowThreshold ==
    (pc = "return" /\ masks.given /\ KnownMetric(match_metric)) =>
        \A p, q \in Kept : p # q =>
            ~(/\ BoxInter(boxes[p], boxes[q]) > 0
              /\ AtLeast(MaskValue(match_metric, masks.list[p], masks.list[q]), nms_threshold))

\* a call of nms with two boxes, no masks and metric IOU has returned
TwoBoxCall ==
    pc = "return" /\ Len(boxes) = 2 /\ ~masks.given /\ match_metric = "IOU"

\* the indices the sort may put last, which the loop accepts first
TopPriority ==
    { k \in 1..Len(boxes) : \E o \in SortedOrders(confidences, boxes, intelligent_sorter) :
          Last(o) = k }

\* C3 (as claimed): two boxes, no masks, metric IOU, IoU exactly equal to
\* nms_threshold: both indices are returned.
C3_BoundaryKeepsBoth ==
    (TwoBoxCall /\ Equals(IoU(boxes[1], boxes[2]), nms_threshold)) => Kept = {1, 2}

\* C3 (amended): two boxes, no masks, metric IOU: with an IoU equal to or above
\* nms_threshold only the higher-priority index is returned, and both are
\* returned when the IoU is strictly below nms_threshold.
C3_BoundarySuppresses ==
    TwoBoxCall =>
        /\ AtLeast(IoU(boxes[1], boxes[2]), nms_threshold) =>
              (Len(keep) = 1 /\ keep[1] \in TopPriority)
        /\ Below(IoU(boxes[1], boxes[2]), nms_threshold) => Kept = {1, 2}

\* a two-box call whose IoU is positive and equal to nms_threshold returned
\* one index
C3_Witness ==
    /\ TwoBoxCall
    /\ BoxInter(boxes[1], boxes[2]) > 0
    /\ Equals(IoU(boxes[1], boxes[2]), nms_threshold)
    /\ Len(keep) = 1

\* the detections keep selects, in the order of keep
Selected(l) == [a \in 1..Len(keep) |-> l[keep[a]]]

\* nms called again on them, with the same metric, threshold and sort mode
SecondCall ==
    NmsOutcomes(Selected(confidences), Selected(boxes),
                IF masks.given THEN MaskList(Selected(masks.list)) ELSE NoMasks,
                match_metric, nms_threshold, intelligent_sorter)

\* a call on n detections returned every one of them
ReturnsAll(r, n) ==
    r.pc = "return" /\ Len(r.keep) = n /\ { r.keep[a] : a \in 1..n } = 1..n

\* C4 (as claimed): nms applied to the detections it returned, with the same
\* metric, threshold, sort mode and masks, returns all of them.
C4_Idempotent ==
    pc = "return" => \A r \in SecondCall : ReturnsAll(r, Len(keep))

\* every box of the call has a positive area
PositiveAreas == \A k \in 1..Len(boxes) : BoxArea(boxes[k]) > 0

\* C4 (amended): the same, for calls without masks (whatever the threshold and
\* the areas), and for calls with masks when nms_threshold > 0 and every box
\* has a positive area.
C4_IdempotentPositiveThreshold ==
    (pc = "return" /\ (~masks.given \/ (nms_threshold[1] > 0 /\ PositiveAreas))) =>
        \A r \in SecondCall : ReturnsAll(r, Len(keep))

\* a call with masks, a positive threshold and boxes of positive area
\* suppressed a detection and returned two or more
C4_Witness ==
    /\ pc = "return" /\ masks.given /\ nms_threshold[1] > 0 /\ PositiveAreas
    /\ Len(keep) >= 2
    /\ Len(keep) < Len(boxes)

\* C9 (as claimed): a call whose match_metric is neither IOU nor IOS never
\* returns a list.
C9_UnknownMetricNeverReturns ==
    ~KnownMetric(match_metric) => pc # "return"

\* confidence (in hundredths) rounded to one decimal, in tenths
Bucket(c) == (c + 5) \div 10

\* detection p has at least the priority of detection q
PriorityGe(p, q) ==
    IF intelligent_sorter
    THEN \/ Bucket(confidences[p]) > Bucket(confidences[q])
         \/ /\ Bucket(confidences[p]) = Bucket(confidences[q])
            /\ BoxArea(boxes[p]) >= BoxArea(boxes[q])
    ELSE confidences[p] >= confidences[q]

\* two detections with confidences 0.81 / 0.84 and areas 2000 / 500, sorted
\* with intelligent_sorter
BucketExample ==
    /\ Len(boxes) = 2 /\ intelligent_sorter
    /\ \E p, q \in 1..2 :
          /\ confidences[p] = 81 /\ BoxArea(boxes[p]) = 2000
          /\ confidences[q] = 84 /\ BoxArea(boxes[q]) = 500

\* C11: keep is at every moment in non-increasing priority order (confidence,
\* or with intelligent_sorter the pair of rounded confidence and area); each
\* step of the loop only appends to it; with confidences 0.81 / 0.84 and areas
\* 2000 / 500 the area-2000 detection is accepted first.
C11_AcceptanceOrder ==
    /\ [](/\ \A a, b \in 1..Len(keep) : a < b => PriorityGe(keep[a], keep[b])
          /\ (BucketExample /\ Len(keep) > 0) => BoxArea(boxes[keep[1]]) = 2000)
    /\ [][pc = "loop" => \E k \in 1..Len(boxes) : keep' = Append(keep, k)]_vars

\* the example call has returned both detections, the area-2000 one first
C11_Witness ==
    /\ pc = "return" /\ BucketExample
    /\ Len(keep) = 2
    /\ BoxArea(boxes[keep[1]]) = 2000 /\ confidences[keep[1]] = 81

\* a call with a mask for every detection, metric IOU or IOS and
\* 0 < nms_threshold <= 1
MaskCall ==
    /\ masks.given /\ KnownMetric(match_metric)
    /\ 0 < nms_threshold[1] /\ nms_threshold[1] <= nms_threshold[2]

\* the masks of detections p and q share no pixel
MasksDisjoint(p, q) == masks.list[p] \cap masks.list[q] = {}

\* the members of a sequence of indices, as a set
Members(o) == { o[a] : a \in 1..Len(o) }

\* C12 (as claimed): in a call with masks and 0 < nms_threshold <= 1, any two
\* detections whose masks share no pixel are both in the returned list.
C12_DisjointMasksBothReturned ==
    (pc = "return" /\ MaskCall) =>
        \A p, q \in 1..Len(boxes) :
            (p # q /\ MasksDisjoint(p, q)) => {p, q} \subseteq Kept

\* the box-level metric value of detections p and q is 0/0: with IOS one of
\* the boxes has area 0, with IOU both have
ValueUndefined(p, q) == BoxValue(match_metric, boxes[p], boxes[q])[2] = 0

\* C12 (amended): in a call with masks and 0 < nms_threshold <= 1 a detection
\* is left out of the returned list only if a returned detection overlaps its
\* box and shares a pixel with its mask, or has with it a box-level value of
\* 0/0 (a zero-area box); so two detections with disjoint masks and a defined
\* box-level value that are the whole input are both returned whatever their
\* boxes; and a round of a call with masks in which some remaining box
\* overlaps the accepted one removes no index whose box does not overlap it.
C12_DisjointMasksNeverSuppress ==
    /\ []((pc = "return" /\ MaskCall) =>
            /\ \A p \in (1..Len(boxes)) \ Kept : \E q \in Kept :
                  \/ /\ BoxInter(boxes[p], boxes[q]) > 0
                     /\ ~MasksDisjoint(p, q)
                  \/ ValueUndefined(p, q)
            /\ (Len(boxes) = 2 /\ MasksDisjoint(1, 2) /\ ~ValueUndefined(1, 2))
                  => Kept = {1, 2})
    /\ [][(/\ pc = "loop" /\ masks.given /\ KnownMetric(match_metric)
           /\ \E k \in Members(Front(order)) :
                 BoxInter(boxes[k], boxes[Last(order)]) > 0)
          => \A k \in Members(Front(order)) :
                 BoxInter(boxes[k], boxes[Last(order)]) = 0 => k \in Members(order')]_vars

\* two detections with the same box and disjoint masks were both returned,
\* and a third one was suppressed
C12_Witness ==
    /\ pc = "return" /\ MaskCall
    /\ Len(boxes) = 3 /\ Len(keep) = 2
    /\ boxes[keep[1]] = boxes[keep[2]]
    /\ MasksDisjoint(keep[1], keep[2])

(***************************************************************************)
(* Properties of MakeCropsDetectThem.get_crops_xy                          *)
(***************************************************************************)
\* the crops returned, by position
CropIndices == 1..Len(data_all_crops)

\* the crop's rectangle holds the pixel (x, y)
Covers(c, x, y) ==
    /\ c.x_start <= x /\ x < c.x_start + shape_x
    /\ c.y_start <= y /\ y < c.y_start + shape_y

\* C5 (as claimed): every pixel of the x_new by y_new canvas lies inside at
\* least one returned crop rectangle.
C5_CanvasCovered ==
    tiler_pc = "return" =>
        \A x \in 0..(x_new - 1), y \in 0..(y_new - 1) :
            \E k \in CropIndices : Covers(data_all_crops[k], x, y)

\* C6: every rectangle get_crops_xy computes lies inside the canvas, no
\* 'Error in generating crops' line is printed, and x_steps * y_steps crops
\* are returned.
C6_TilesInsideCanvas ==
    /\ errors_printed = 0
    /\ \A k \in CropIndices :
          /\ data_all_crops[k].x_start + shape_x <= x_new
          /\ data_all_crops[k].y_start + shape_y <= y_new
    /\ tiler_pc = "return" => Len(data_all_crops) = x_steps * y_steps

\* get_crops_xy returned a grid of at least two by two crops whose last
\* column starts at a truncated (non-integer) offset
C6_Witness ==
    /\ tiler_pc = "return"
    /\ x_steps >= 2 /\ y_steps >= 2
    /\ (shape_x * (x_steps - 1) * (100 - overlap_x)) % 100 # 0
    /\ Len(data_all_crops) = x_steps * y_steps

\* the grid position of the crop at position k of the returned list
RowOf(k) == (k - 1) \div x_steps
ColOf(k) == (k - 1) % x_steps

\* C7 (as claimed): crops come in row-major order, the crop of (row, col) is
\* numbered row * x_steps + col + 1 and starts at
\* (round(shape_x * col * stride_x), round(shape_y * row * stride_y)).
C7_OffsetsRounded ==
    \A k \in CropIndices :
        /\ data_all_crops[k].number_of_crop = RowOf(k) * x_steps + ColOf(k) + 1
        /\ data_all_crops[k].x_start = PyRound(shape_x * ColOf(k) * (100 - overlap_x), 100)
        /\ data_all_crops[k].y_start = PyRound(shape_y * RowOf(k) * (100 - overlap_y), 100)

\* C7 (amended): the same with the offsets truncated:
\* (floor(shape_x * col * stride_x), floor(shape_y * row * stride_y)).
C7_OffsetsTruncated ==
    \A k \in CropIndices :
        /\ data_all_crops[k].number_of_crop = RowOf(k) * x_steps + ColOf(k) + 1
        /\ data_all_crops[k].x_start = (shape_x * ColOf(k) * (100 - overlap_x)) \div 100
        /\ data_all_crops[k].y_start = (shape_y * RowOf(k) * (100 - overlap_y)) \div 100

\* get_crops_xy returned a grid of at least two by two crops, and
\* shape_x * stride_x is not an integer
C7_Witness ==
    /\ tiler_pc = "return"
    /\ x_steps >= 2 /\ y_steps >= 2
    /\ Len(data_all_crops) = x_steps * y_steps
    /\ (shape_x * (100 - overlap_x)) % 100 # 0

\* the tiler was called on the reference scenario and has computed its steps
ReferenceRun ==
    /\ tiler_pc # "entry"
    /\ image_w = 1500 /\ image_h = 1000
    /\ shape_x = 700 /\ shape_y = 700
    /\ overlap_x = 25 /\ overlap_y = 25

\* C8 (as claimed): a 1500 x 1000 image, 700 x 700 tiles, 25% overlap:
\* steps_x = 3 and steps_y = 2.
C8_ReferenceSteps32 == ReferenceRun => (x_steps = 3 /\ y_steps = 2)

\* C8 (amended): for that scenario steps_x = 2 and steps_y = 1, the canvas is
\* 1225 wide and 700 high, and the crops returned are two, at x_start 0 and
\* 525 and y_start 0.
C8_ReferenceSteps21 ==
    ReferenceRun =>
        /\ x_steps = 2 /\ y_steps = 1
        /\ x_new = 1225 /\ y_new = 700
        /\ tiler_pc = "return" =>
              /\ Len(data_all_crops) = 2
              /\ data_all_crops[1].x_start = 0 /\ data_all_crops[2].x_start = 525
              /\ data_all_crops[1].y_start = 0 /\ data_all_crops[2].y_start = 0

\* get_crops_xy returned from the reference scenario
C8_Witness == ReferenceRun /\ tiler_pc = "return"


(***************************************************************************)
(* Claims about CombineDetection.combinate_detections                      *)
(***************************************************************************)
\* every crop went through calculate_inference, and through
\* calculate_real_values when it has a detection to remap
CropsPrepared ==
    \A c \in 1..Len(data_all_crops) :
        /\ data_all_crops[c].detected_xyxy.some
        /\ Len(data_all_crops[c].detected_xyxy.val) > 0 =>
               data_all_crops[c].detected_xyxy_real.some

\* the values of one attribute over the first n crops, crop after crop
RECURSIVE CropsInOrder(_, _)
CropsInOrder(attr, n) ==
    IF n = 0 THEN <<>>
    ELSE CropsInOrder(attr, n - 1) \o
         (IF data_all_crops[n][attr].some THEN data_all_crops[n][attr].val ELSE <<>>)

CombineFinished == fusion_pc \in {"return", "raise"}

\* C10: whatever the crops hold (no detections, no masks because
\* segmentation is off), combinate_detections returns; confidences, boxes and
\* class ids have one length and masks that length or none; entry k of each
\* list is the k-th detection counting crop after crop in tile order.
C10_AggregationParallel ==
    (CombineFinished /\ CropsPrepared) =>
        /\ fusion_pc = "return"
        /\ Len(detected_xyxy) = Len(detected_conf)
        /\ Len(detected_cls) = Len(detected_conf)
        /\ Len(detected_masks) \in {0, Len(detected_conf)}
        /\ detected_conf = CropsInOrder("detected_conf", Len(data_all_crops))
        /\ detected_cls = CropsInOrder("detected_cls", Len(data_all_crops))
        /\ detected_xyxy = CropsInOrder("detected_xyxy_real", Len(data_all_crops))
        /\ detected_masks = CropsInOrder("detected_masks_real", Len(data_all_crops))


(***************************************************************************)
(* Claims about CropComponent                                              *)
(***************************************************************************)
\* boxes and masks of the canvas frame brought to the frame of the original
\* image
BoxesToImage(xyxy) ==
    [k \in 1..Len(xyxy) |->
        <<(xyxy[k][1] * image_w) \div x_new, (xyxy[k][2] * image_h) \div y_new,
          (xyxy[k][3] * image_w) \div x_new, (xyxy[k][4] * image_h) \div y_new>>]

MasksToImage(ms) == [k \in 1..Len(ms) |-> ResizeNearest(ms[k], image_w, image_h)]

\* what a step may do to a remapped attribute that is already set: leave it,
\* or scale it to the original image
StaysOrScales(old, new, ToImage(_)) ==
    old.some => (new = old \/ new = Some(ToImage(old.val)))

\* C13: a crop's remapped boxes and masks are set only once inference has
\* filled the local detections, and once set no call changes them except the
\* scaling to the original image; a second calculate_real_values or
\* resize_results leaves them as they are.  (The formula lets the scaling
\* happen more than once, so it asks less than the claim does.)
C13_RemappedWriteOnce ==
    /\ [](\A c \in 1..Len(data_all_crops) :
             /\ data_all_crops[c].detected_xyxy_real.some =>
                    data_all_crops[c].detected_xyxy.some
             /\ data_all_crops[c].detected_masks_real.some =>
                    data_all_crops[c].detected_masks.some)
    /\ [][tiler_pc = "return" =>
            \A c \in 1..Len(data_all_crops) :
                /\ StaysOrScales(data_all_crops[c].detected_xyxy_real,
                                 data_all_crops'[c].detected_xyxy_real, BoxesToImage)
                /\ StaysOrScales(data_all_crops[c].detected_masks_real,
                                 data_all_crops'[c].detected_masks_real, MasksToImage)]_vars

=============================================================================
